---- MODULE Spec2Model ----
(***************************************************************************)
(* The Conan recipe BricksConan (conanfile.py) as a state machine.         *)
(*                                                                         *)
(* The recipe is a class of hooks (set_version, validate, generate, build, *)
(* package, package_id) that a caller invokes.  The state is what the      *)
(* hooks read (host version, marker file, conf, options, settings) and     *)
(* what they write (self.version, the toolchain file, self.info) together  *)
(* with a log of the hook returns and of the external Meson steps.         *)
(*                                                                         *)
(* Two specifications share the hooks:                                     *)
(*   Spec       a lifecycle pass: the hooks are invoked once each, in the  *)
(*              lifecycle order, and an exception ends the pass;           *)
(*   SpecHooks  an arbitrary caller: any hook, in any order, repeated or   *)
(*              not (the recipe itself is all that stands in the way); it  *)
(*              has every behaviour of Spec among its own.                 *)
(***************************************************************************)
EXTENDS Integers, Sequences, FiniteSets

VARIABLES
    conan_version, \* version of the host package manager
    marker,        \* version.txt: Missing, or its contents
    skip_test,     \* conf "tools.build:skip_test"
    overrides,     \* the user's option overrides
    settings,      \* os, build_type, arch
    options,       \* self.options: the active option set
    self,          \* attributes the hooks assign on the recipe object
    toolchain,     \* the toolchain file written by MesonToolchain.generate()
    info,          \* self.info, the data the package id is computed from
    events         \* log: external Meson steps and hook returns, in order

vars == <<conan_version, marker, skip_test, overrides, settings, options,
          self, toolchain, info, events>>

(***************************************************************************)
(* Bounds.                                                                 *)
(***************************************************************************)
MaxLen == 2      \* longest marker-file contents, in characters
MaxCalls == 2    \* hook invocations, in any order, of an arbitrary caller
MaxOverridable == 0  \* declared options, in order, open to overrides under an
                     \* arbitrary caller

(***************************************************************************)
(* Values.                                                                 *)
(***************************************************************************)
None == [some |-> FALSE]
Some(v) == [some |-> TRUE, val |-> v]
Missing == [some |-> FALSE]

Chars == {" ", "1"}
Strings == UNION {[1..n -> Chars] : n \in 0..MaxLen}

\* A string without its leading and trailing blanks.
RECURSIVE TrimLeft(_)
TrimLeft(s) == IF s # <<>> /\ Head(s) = " " THEN TrimLeft(Tail(s)) ELSE s
RECURSIVE TrimRight(_)
TrimRight(s) ==
    IF s # <<>> /\ s[Len(s)] = " " THEN TrimRight(SubSeq(s, 1, Len(s) - 1)) ELSE s
Trim(s) == TrimRight(TrimLeft(s))

\* Versions of the host: major.minor.patch, a pre-release or the release.
Version(major, minor, patch, pre) ==
    [major |-> major, minor |-> minor, patch |-> patch, pre |-> pre]
ConanVersions == {Version(1, 59, 0, FALSE),    \* 1.59.0
                  Version(2, 0, 0, TRUE),      \* 2.0.0-beta5
                  Version(2, 0, 0, FALSE)}     \* 2.0.0
MinConanVersion == Version(2, 0, 0, FALSE)     \* Version("2.0.0")

\* a >= b: by major, minor and patch in turn; of two versions equal in these a
\* pre-release is below the release.
VersionGE(a, b) ==
    \/ a.major > b.major
    \/ a.major = b.major /\ a.minor > b.minor
    \/ a.major = b.major /\ a.minor = b.minor /\ a.patch > b.patch
    \/ /\ a.major = b.major /\ a.minor = b.minor /\ a.patch = b.patch
       /\ (a.pre => b.pre)
MinCppStd == 17          \* check_min_cppstd(self, 17)
CppStds == {14, 17, 20}

DeclaredOptions == <<"shared", "fPIC", "build_coverage">>
OptionNames == {DeclaredOptions[i] : i \in 1..Len(DeclaredOptions)}
OptionDomain == {"True", "False"}
default_options ==
    [o \in OptionNames |-> IF o = "fPIC" THEN "True" ELSE "False"]

OsNames == {"Linux", "Windows"}
BuildTypes == {"Debug", "Release"}
Archs == {"x86_64", "armv8"}
SettingsSpace == [os : OsNames, build_type : BuildTypes, arch : Archs]
requires == {"doctest/2.4.9"}

OverrideSpace == UNION {[K -> OptionDomain] : K \in SUBSET OptionNames}

(***************************************************************************)
(* Option Model: the declared options with their defaults, the user's      *)
(* overrides applied on top.  The recipe defines no config_options hook,   *)
(* so no option is removed for any platform.                               *)
(***************************************************************************)
\* Mutant: a config_options hook that deletes fPIC on Windows.
resolve_config_options(defaults, user, platform) ==
    [o \in DOMAIN defaults \ (IF platform = "Windows" THEN {"fPIC"} ELSE {}) |->
        IF o \in DOMAIN user THEN user[o] ELSE defaults[o]]

resolve(defaults, user, platform) ==
    [o \in DOMAIN defaults |-> IF o \in DOMAIN user THEN user[o] ELSE defaults[o]]

\* bool(self.options.<name>): an option value is false when it is one of the
\* falsey spellings, true otherwise.
OptionBool(v) == v \notin {"False", "None", "0", "off", ""}

(***************************************************************************)
(* The log.                                                                *)
(***************************************************************************)
Lifecycle == <<"set_version", "validate", "generate", "build", "package">>
HookNames == {Lifecycle[i] : i \in 1..Len(Lifecycle)}
ToolSteps == {"configure", "meson_build", "install"}

Event(op, err) == [op |-> op, err |-> err]
Idx(op) == {i \in 1..Len(events) : events[i].op = op}
HookIdx == {i \in 1..Len(events) : events[i].op \in HookNames}
NHooks == Cardinality(HookIdx)
Halted == \E i \in 1..Len(events) : events[i].err # "none"
Ok(i) == events[i].err = "none"
ReturnedBefore(h, i) == \E j \in 1..(i - 1) : events[j].op = h /\ Ok(j)

\* The exit status of an external Meson step: a non-zero exit raises.
Exit(rc) == IF rc = 0 THEN "none" ELSE "BuildError"

(***************************************************************************)
(* The hooks.                                                              *)
(***************************************************************************)
\* Mutant: the loaded contents are stripped.
set_version_trimmed ==
    /\ IF VersionGE(conan_version, MinConanVersion)
       THEN IF marker = Missing
            THEN /\ events' = Append(events, Event("set_version", "ResolutionError"))
                 /\ self' = self
            ELSE /\ self' = [self EXCEPT !.version = Some(Trim(marker.val))]
                 /\ events' = Append(events, Event("set_version", "none"))
       ELSE /\ self' = self
            /\ events' = Append(events, Event("set_version", "none"))
    /\ UNCHANGED <<conan_version, marker, skip_test, overrides, settings, options,
                   toolchain, info>>

\* Mutant: a missing marker file is caught and the hook returns normally.
set_version_swallow ==
    /\ IF VersionGE(conan_version, MinConanVersion) /\ marker # Missing
       THEN self' = [self EXCEPT !.version = Some(marker.val)]
       ELSE self' = self
    /\ events' = Append(events, Event("set_version", "none"))
    /\ UNCHANGED <<conan_version, marker, skip_test, overrides, settings, options,
                   toolchain, info>>

\* set_version: on a host of version 2.0.0 or above, self.version becomes what
\* load() returns, the contents of version.txt as they are; a missing file
\* raises.  On an older host the hook does nothing.
set_version ==
    /\ IF VersionGE(conan_version, MinConanVersion)
       THEN IF marker = Missing
            THEN /\ events' = Append(events, Event("set_version", "ResolutionError"))
                 /\ self' = self
            ELSE /\ self' = [self EXCEPT !.version = Some(marker.val)]
                 /\ events' = Append(events, Event("set_version", "none"))
       ELSE /\ self' = self
            /\ events' = Append(events, Event("set_version", "none"))
    /\ UNCHANGED <<conan_version, marker, skip_test, overrides, settings, options,
                   toolchain, info>>

\* validate: check_min_cppstd(self, 17) raises when the compiler's C++ standard
\* is below 17.
validate(cppstd) ==
    /\ events' = Append(events, Event("validate",
                        IF cppstd < MinCppStd THEN "ValidationError" ELSE "none"))
    /\ UNCHANGED <<conan_version, marker, skip_test, overrides, settings, options,
                   self, toolchain, info>>

\* The configuration MesonToolchain writes: the platform settings, and the
\* project option b_coverage set from the build_coverage option.
\* Mutant: b_coverage is set from the wrong option.
MesonToolchain_shared(opts, sets) ==
    [some |-> TRUE, os |-> sets.os, build_type |-> sets.build_type,
     arch |-> sets.arch, b_coverage |-> OptionBool(opts["shared"])]

MesonToolchain(opts, sets) ==
    [some |-> TRUE, os |-> sets.os, build_type |-> sets.build_type,
     arch |-> sets.arch, b_coverage |-> OptionBool(opts["build_coverage"])]

generate ==
    /\ toolchain' = MesonToolchain(options, settings)
    /\ events' = Append(events, Event("generate", "none"))
    /\ UNCHANGED <<conan_version, marker, skip_test, overrides, settings, options,
                   self, info>>

\* Mutant: the test of the skip flag is inverted.
build_inverted(rcConfigure, rcBuild) ==
    /\ events' =
         IF ~skip_test
         THEN Append(events, Event("build", "none"))
         ELSE IF rcConfigure # 0
              THEN events \o <<Event("configure", Exit(rcConfigure)),
                               Event("build", Exit(rcConfigure))>>
              ELSE events \o <<Event("configure", "none"),
                               Event("meson_build", Exit(rcBuild)),
                               Event("build", Exit(rcBuild))>>
    /\ UNCHANGED <<conan_version, marker, skip_test, overrides, settings, options,
                   self, toolchain, info>>

\* Mutant: the skip flag gates meson.build() alone; configure always runs.
build_configure_always(rcConfigure, rcBuild) ==
    /\ events' =
         IF rcConfigure # 0
         THEN events \o <<Event("configure", Exit(rcConfigure)),
                          Event("build", Exit(rcConfigure))>>
         ELSE IF skip_test
              THEN events \o <<Event("configure", "none"), Event("build", "none")>>
              ELSE events \o <<Event("configure", "none"),
                               Event("meson_build", Exit(rcBuild)),
                               Event("build", Exit(rcBuild))>>
    /\ UNCHANGED <<conan_version, marker, skip_test, overrides, settings, options,
                   self, toolchain, info>>

\* Mutant: a build without a toolchain is refused.
build_checked(rcConfigure, rcBuild) ==
    /\ events' =
         IF toolchain = None
         THEN Append(events, Event("build", "OrderingError"))
         ELSE IF skip_test
         THEN Append(events, Event("build", "none"))
         ELSE IF rcConfigure # 0
              THEN events \o <<Event("configure", Exit(rcConfigure)),
                               Event("build", Exit(rcConfigure))>>
              ELSE events \o <<Event("configure", "none"),
                               Event("meson_build", Exit(rcBuild)),
                               Event("build", Exit(rcBuild))>>
    /\ UNCHANGED <<conan_version, marker, skip_test, overrides, settings, options,
                   self, toolchain, info>>

\* build: unless tools.build:skip_test is set, meson.configure() and then
\* meson.build(); a step that exits non-zero raises, and the rest is not run.
build(rcConfigure, rcBuild) ==
    /\ events' =
         IF skip_test
         THEN Append(events, Event("build", "none"))
         ELSE IF rcConfigure # 0
              THEN events \o <<Event("configure", Exit(rcConfigure)),
                               Event("build", Exit(rcConfigure))>>
              ELSE events \o <<Event("configure", "none"),
                               Event("meson_build", Exit(rcBuild)),
                               Event("build", Exit(rcBuild))>>
    /\ UNCHANGED <<conan_version, marker, skip_test, overrides, settings, options,
                   self, toolchain, info>>

\* Mutant: a package before a build that returned is refused.
package_checked(rcInstall) ==
    /\ events' =
         IF ReturnedBefore("build", Len(events) + 1)
         THEN events \o <<Event("install", Exit(rcInstall)),
                          Event("package", Exit(rcInstall))>>
         ELSE Append(events, Event("package", "OrderingError"))
    /\ UNCHANGED <<conan_version, marker, skip_test, overrides, settings, options,
                   self, toolchain, info>>

\* Mutant: a second package is refused.
package_once(rcInstall) ==
    /\ events' =
         IF Idx("package") = {}
         THEN events \o <<Event("install", Exit(rcInstall)),
                          Event("package", Exit(rcInstall))>>
         ELSE Append(events, Event("package", "InvariantViolation"))
    /\ UNCHANGED <<conan_version, marker, skip_test, overrides, settings, options,
                   self, toolchain, info>>

\* package: meson.install(), whatever ran before.
package(rcInstall) ==
    /\ events' = events \o <<Event("install", Exit(rcInstall)),
                             Event("package", Exit(rcInstall))>>
    /\ UNCHANGED <<conan_version, marker, skip_test, overrides, settings, options,
                   self, toolchain, info>>

\* self.info as the package manager prepares it, and info.clear().
InfoOf(opts, sets) == [settings |-> Some(sets), options |-> Some(opts),
                       requires |-> requires]
\* Mutant: only the options are cleared.
Clear_options(i) == [settings |-> i.settings, options |-> None, requires |-> {}]
Clear(i) == [settings |-> None, options |-> None, requires |-> {}]
PackageId(opts, sets) == Clear(InfoOf(opts, sets))

package_id ==
    /\ info' = Clear(info)
    /\ UNCHANGED <<conan_version, marker, skip_test, overrides, settings, options,
                   self, toolchain, events>>

(***************************************************************************)
(* Construction.                                                           *)
(***************************************************************************)
Init ==
    /\ conan_version \in ConanVersions
    /\ marker \in {Missing} \cup {Some(s) : s \in Strings}
    /\ skip_test \in BOOLEAN
    /\ overrides \in OverrideSpace
    /\ settings \in SettingsSpace
    /\ options = resolve(default_options, overrides, settings.os)
    /\ self = [version |-> None]
    /\ toolchain = None
    /\ info = InfoOf(options, settings)
    /\ events = <<>>

(***************************************************************************)
(* Spec: one lifecycle pass.  The caller invokes the hooks in the order    *)
(* of Lifecycle, each once, and stops at the first exception; package_id   *)
(* may be asked for at any time.                                           *)
(***************************************************************************)
NextHook == IF NHooks < Len(Lifecycle) THEN Lifecycle[NHooks + 1] ELSE "Done"
Phase == IF Halted THEN "Failed"
         ELSE IF NHooks = 0 THEN "Idle"
         ELSE IF NHooks = Len(Lifecycle) THEN "Done"
         ELSE Lifecycle[NHooks]
Pass(h) == ~Halted /\ NextHook = h

PassSetVersion == Pass("set_version") /\ set_version
PassValidate == Pass("validate") /\ \E c \in CppStds : validate(c)
PassGenerate == Pass("generate") /\ generate
PassBuild == Pass("build") /\ \E rc \in {0, 1}, rb \in {0, 1} : build(rc, rb)
PassPackage == Pass("package") /\ \E ri \in {0, 1} : package(ri)
ComputePackageId == package_id

Next ==
    \/ PassSetVersion
    \/ PassValidate
    \/ PassGenerate
    \/ PassBuild
    \/ PassPackage
    \/ ComputePackageId

Spec == Init /\ [][Next]_vars

(***************************************************************************)
(* SpecHooks: an arbitrary caller of the recipe's hooks.  It invokes up to *)
(* MaxCalls hooks in any order, repeated or not; a caller that has kept    *)
(* the lifecycle order so far may go on with the pass past that bound, so  *)
(* every lifecycle pass is a behaviour of SpecHooks too.  The recipe is    *)
(* constructed as in Init, on every platform, with overrides of the first  *)
(* MaxOverridable declared options only.                                   *)
(***************************************************************************)
InitHooks ==
    /\ Init
    /\ DOMAIN overrides \subseteq
           {DeclaredOptions[i] : i \in 1..Len(DeclaredOptions)} \
           {DeclaredOptions[i] : i \in (MaxOverridable + 1)..Len(DeclaredOptions)}

HookEvents == SelectSeq(events, LAMBDA e : e.op \in HookNames)

\* The log is that of a caller keeping the lifecycle order: the hooks in the
\* order of Lifecycle, and none after one that raised.
InOrder ==
    /\ Len(HookEvents) <= Len(Lifecycle)
    /\ \A k \in 1..Len(HookEvents) :
         /\ HookEvents[k].op = Lifecycle[k]
         /\ k < Len(HookEvents) => HookEvents[k].err = "none"

MayCall(h) == NHooks < MaxCalls \/ (Pass(h) /\ InOrder)

CallSetVersion == MayCall("set_version") /\ set_version
CallValidate == MayCall("validate") /\ \E c \in CppStds : validate(c)
CallGenerate == MayCall("generate") /\ generate
CallBuild == MayCall("build") /\ \E rc \in {0, 1}, rb \in {0, 1} : build(rc, rb)
CallPackage == MayCall("package") /\ \E ri \in {0, 1} : package(ri)
CallPackageId == package_id

NextHooks ==
    \/ CallSetVersion
    \/ CallValidate
    \/ CallGenerate
    \/ CallBuild
    \/ CallPackage
    \/ CallPackageId

SpecHooks == InitHooks /\ [][NextHooks]_vars

(***************************************************************************)
(* Vocabulary of the properties.                                           *)
(***************************************************************************)
OverrideOrDefault(o) ==
    IF o \in DOMAIN overrides THEN overrides[o]
    ELSE CASE o = "shared" -> "False"
           [] o = "fPIC" -> "True"
           [] o = "build_coverage" -> "False"

\* Options a platform makes inapplicable.
PlatformRemoved(os) == IF os = "Windows" THEN {"fPIC"} ELSE {}

\* A status flag build_skipped on the recipe, set.
BuildSkippedFlag == "build_skipped" \in DOMAIN self /\ self["build_skipped"] = TRUE

SetVersionDone == \E i \in Idx("set_version") : Ok(i)

(***************************************************************************)
(* C1.  As claimed: install is never invoked unless the Build phase        *)
(* returned normally (completed or skipped) earlier, and a package()       *)
(* invoked otherwise fails with an OrderingError without calling install.  *)
(***************************************************************************)
C1_Original ==
    /\ \A i \in Idx("install") : ReturnedBefore("build", i)
    /\ \A i \in Idx("package") :
         ~ReturnedBefore("build", i) =>
             /\ events[i].err = "OrderingError"
             /\ (i = 1 \/ events[i - 1].op # "install")

\* C1, amended.  package() checks nothing: every invocation calls install, once,
\* whether or not a Build returned before it, and fails only, with a BuildError,
\* when install exits non-zero; there is no OrderingError.
C1_Amended ==
    /\ \A i \in Idx("package") :
         /\ i > 1
         /\ events[i - 1].op = "install"
         /\ events[i].err = events[i - 1].err
         /\ events[i].err \in {"none", "BuildError"}
    /\ \A i \in Idx("install") : i < Len(events) /\ events[i + 1].op = "package"

C1_Witness ==
    \E i \in Idx("install") : Ok(i) /\ ~ReturnedBefore("build", i)

(***************************************************************************)
(* C2.  As claimed: with the skip flag set the Build phase is bypassed and *)
(* a status flag build_skipped is true on the recipe in every state after  *)
(* the Build step, and Package succeeds; with the flag clear build_skipped *)
(* is never true.                                                          *)
(***************************************************************************)
C2_Original ==
    /\ (skip_test /\ Idx("build") # {}) =>
           /\ BuildSkippedFlag
           /\ Idx("configure") = {} /\ Idx("meson_build") = {}
    /\ skip_test => \A i \in Idx("package") : Ok(i)
    /\ ~skip_test => ~BuildSkippedFlag

\* C2, amended.  With the skip flag set the Build phase invokes neither
\* configure nor build and returns normally, and Package still invokes install,
\* succeeding exactly when install exits zero.  Nothing is recorded on the
\* recipe: it has no build_skipped flag in any state, whatever the skip flag.
C2_Amended ==
    /\ DOMAIN self = {"version"}
    /\ ~BuildSkippedFlag
    /\ skip_test =>
         /\ Idx("configure") = {} /\ Idx("meson_build") = {}
         /\ \A i \in Idx("build") : Ok(i)
         /\ \A i \in Idx("package") :
              i > 1 /\ events[i - 1].op = "install" /\ (Ok(i) <=> Ok(i - 1))

C2_Witness ==
    /\ skip_test
    /\ \E i \in Idx("build") : \E j \in Idx("package") : i < j /\ Ok(i) /\ Ok(j)

(***************************************************************************)
(* C3.  As claimed: after set_version the version is a defined string: the *)
(* recipe's static version field on a host below major version 2, the      *)
(* trimmed contents of the marker file on a host of major version 2 or     *)
(* more.                                                                   *)
(***************************************************************************)
C3_Original ==
    SetVersionDone =>
        /\ self.version.some
        /\ conan_version.major >= 2 => self.version = Some(Trim(marker.val))

\* C3, amended.  On a host below version 2.0.0 (a 1.x host, or a pre-release of
\* 2.0.0, whose major version is 2) set_version leaves the version as it was and
\* does not read the marker file: the recipe declares no version field, so it
\* stays undefined.  On a host of version 2.0.0 or above the version becomes the
\* marker file's entire contents as they are, surrounding whitespace included;
\* only then is it a defined string.  There a missing marker file raises and
\* leaves it undefined.
C3_Amended ==
    /\ SetVersionDone =>
         IF ~VersionGE(conan_version, MinConanVersion)
         THEN self.version = None
         ELSE marker # Missing /\ self.version = Some(marker.val)
    /\ ~SetVersionDone => self.version = None
    /\ \A i \in Idx("set_version") :
         ~Ok(i) <=> (VersionGE(conan_version, MinConanVersion) /\ marker = Missing)

C3_Witness ==
    /\ SetVersionDone
    /\ VersionGE(conan_version, MinConanVersion)
    /\ marker.val # Trim(marker.val)
    /\ self.version = Some(marker.val)

(***************************************************************************)
(* C4.  The toolchain written by generate has b_coverage equal to the      *)
(* boolean value of the build_coverage option (the override, else false)   *)
(* and the platform settings unchanged; it is a function of the options    *)
(* and the settings alone.  There is a toolchain exactly after generate.   *)
(***************************************************************************)
C4_Coverage ==
    /\ toolchain = None <=> Idx("generate") = {}
    /\ toolchain # None =>
         /\ toolchain.b_coverage = (OverrideOrDefault("build_coverage") = "True")
         /\ toolchain.os = settings.os
         /\ toolchain.build_type = settings.build_type
         /\ toolchain.arch = settings.arch
         /\ DOMAIN toolchain = {"some", "os", "build_type", "arch", "b_coverage"}

C4_Witness ==
    /\ toolchain # None
    /\ "build_coverage" \in DOMAIN overrides
    /\ overrides["build_coverage"] = "True"
    /\ toolchain.b_coverage = TRUE

(***************************************************************************)
(* C5.  Once package_id has run, the identity is the one package_id yields *)
(* for every combination that differs only in build type or architecture;  *)
(* it can run in any phase, and a step that changes the identity changes   *)
(* neither the log of the pass nor the recipe nor the toolchain.           *)
(***************************************************************************)
C5_Identity ==
    /\ [](info # InfoOf(options, settings) =>
            \A s2 \in SettingsSpace :
                s2.os = settings.os => info = PackageId(options, s2))
    /\ [][info' # info => UNCHANGED <<events, self, toolchain>>]_vars
    /\ [][events' # events => info' = info]_vars

C5_Witness ==
    /\ events = <<>>
    /\ info # InfoOf(options, settings)
    /\ \E s2 \in SettingsSpace :
         s2 # settings /\ s2.os = settings.os /\ info = PackageId(options, s2)

(***************************************************************************)
(* C6.  A failed phase ends the pass: an event that failed is the last of  *)
(* the log, but for an external step, which is followed by its hook's      *)
(* BuildError and nothing else; a completed Package means nothing failed;  *)
(* and with the marker file missing on a host of version 2.0.0 or above,   *)
(* where SetVersion reads it, no phase after SetVersion is attempted.      *)
(***************************************************************************)
C6_Halts ==
    /\ \A i \in 1..Len(events) :
         ~Ok(i) =>
            \/ i = Len(events)
            \/ /\ events[i].op \in ToolSteps
               /\ i + 1 = Len(events)
               /\ events[i + 1].op \in HookNames
               /\ events[i + 1].err = "BuildError"
    /\ (\E i \in Idx("package") : Ok(i)) => ~Halted
    /\ (VersionGE(conan_version, MinConanVersion) /\ marker = Missing) =>
         /\ \A i \in 1..Len(events) : events[i].op = "set_version"
         /\ Len(events) <= 1
         /\ events # <<>> => events[1].err = "ResolutionError"
         /\ toolchain = None
    /\ \A i \in Idx("validate") : ~Ok(i) => toolchain = None

C6_Witness ==
    /\ VersionGE(conan_version, MinConanVersion)
    /\ marker = Missing
    /\ events = <<Event("set_version", "ResolutionError")>>

(***************************************************************************)
(* C7.  As claimed: the active options are the declared names minus the    *)
(* platform-removed ones (fPIC where it is inapplicable), each mapped to   *)
(* its override, else to its default.                                      *)
(***************************************************************************)
C7_Original ==
    /\ DOMAIN options = OptionNames \ PlatformRemoved(settings.os)
    /\ \A o \in DOMAIN options : options[o] = OverrideOrDefault(o)

\* C7, amended.  The active options are exactly the declared names shared, fPIC
\* and build_coverage on every operating system (fPIC is never dropped), each
\* mapped to its override, else to its default (False, True, False).
C7_Amended ==
    /\ DOMAIN options = {"shared", "fPIC", "build_coverage"}
    /\ \A o \in DOMAIN options : options[o] = OverrideOrDefault(o)

C7_Witness ==
    /\ settings.os = "Windows"
    /\ DOMAIN overrides = {"build_coverage"}
    /\ options["fPIC"] = "True"
    /\ options["build_coverage"] = overrides["build_coverage"]
    /\ toolchain # None

(***************************************************************************)
(* C8.  As claimed: no external build step runs unless generate returned   *)
(* earlier, and a build() invoked without a toolchain fails with an        *)
(* OrderingError and invokes no external step.                             *)
(***************************************************************************)
C8_Original ==
    /\ \A i \in Idx("configure") \cup Idx("meson_build") :
         ReturnedBefore("generate", i)
    /\ \A i \in Idx("build") :
         ~ReturnedBefore("generate", i) =>
             /\ events[i].err = "OrderingError"
             /\ (i = 1 \/ events[i - 1].op \notin ToolSteps)

\* C8, amended.  build() checks nothing: with the skip flag clear every
\* invocation calls configure, toolchain or not, and build after a configure
\* that exited zero; it fails only with a BuildError from a step that exits
\* non-zero; there is no OrderingError.  There is a toolchain exactly when
\* generate has run.
C8_Amended ==
    /\ toolchain = None <=> Idx("generate") = {}
    /\ \A i \in Idx("build") :
         /\ events[i].err \in {"none", "BuildError"}
         /\ ~skip_test =>
              /\ i > 1
              /\ events[i - 1].op \in {"configure", "meson_build"}
              /\ events[i].err = events[i - 1].err
    /\ \A i \in Idx("meson_build") : i > 1 /\ events[i - 1] = Event("configure", "none")

C8_Witness ==
    \E i \in Idx("configure") :
        /\ Idx("generate") = {}
        /\ toolchain = None
        /\ Ok(i)

(***************************************************************************)
(* C9.  As claimed: a second invocation of a hook is rejected as an        *)
(* InvariantViolation and has no side effect.                              *)
(***************************************************************************)
C9_Original ==
    \A h \in HookNames : \A j \in Idx(h) :
        (\E i \in Idx(h) : i < j) =>
            /\ events[j].err = "InvariantViolation"
            /\ events[j - 1].op \notin ToolSteps

\* C9, amended.  The recipe rejects no repetition and there is no
\* InvariantViolation: a hook invoked again does what it did the first time, so
\* there are as many install calls as package invocations and, with the skip
\* flag clear, as many configure calls as build invocations.
C9_Amended ==
    /\ \A i \in 1..Len(events) :
         events[i].err \in {"none", "ResolutionError", "ValidationError", "BuildError"}
    /\ Cardinality(Idx("install")) = Cardinality(Idx("package"))
    /\ ~skip_test => Cardinality(Idx("configure")) = Cardinality(Idx("build"))
    /\ skip_test => Idx("configure") = {}
    /\ \A i, j \in Idx("set_version") : events[i].err = events[j].err

C9_Witness ==
    /\ Cardinality(Idx("package")) = 2
    /\ Cardinality(Idx("install")) = 2
    /\ \A i \in Idx("install") : Ok(i)

(***************************************************************************)
(* C10.  The skip flag gates configure together with build: with the flag  *)
(* set neither is ever invoked, yet Package invokes install; with the flag *)
(* clear configure is invoked exactly once by the Build phase, before      *)
(* build, and build before install.                                        *)
(***************************************************************************)
C10_Gating ==
    /\ skip_test => Idx("configure") = {} /\ Idx("meson_build") = {}
    /\ \A i \in Idx("package") : i > 1 /\ events[i - 1].op = "install"
    /\ ~skip_test =>
         /\ Cardinality(Idx("configure")) = Cardinality(Idx("build"))
         /\ Cardinality(Idx("configure")) <= 1
         /\ \A j \in Idx("meson_build") :
              \E i \in Idx("configure") : i < j /\ Ok(i)
         /\ \A k \in Idx("install") :
              \E j \in Idx("meson_build") : j < k /\ Ok(j)

C10_Witness ==
    /\ skip_test
    /\ Idx("configure") = {}
    /\ \E i \in Idx("install") : Ok(i)

====
